---- MODULE Spec2Model ----
(***************************************************************************)
(* Model of mcp-test-timebox: the TimeboxController                        *)
(* (src/src/executor/timebox-controller.ts) and ProcessExecutor.execute    *)
(* (src/src/executor/process-executor.ts).                                 *)
(*                                                                         *)
(* JavaScript runs every handler to completion on one thread, so each      *)
(* handler (the promise executor, a 'data' listener, the 'close' and       *)
(* 'error' listeners, a timer callback) is one atomic action.  Time is a   *)
(* discrete clock `now` read by Date.now() and by the timers; a timer      *)
(* never fires before it is due and may fire late.                         *)
(***************************************************************************)
EXTENDS Integers, Sequences, FiniteSets, TLC

\* ------------------------------------------------------------- bounds
MaxTimeout == 2
MaxSpawnDelay == 1
MaxChunks == 2

\* The clock stops at the latest time the hard timer armed by execute() can
\* be due.
MaxTime == MaxSpawnDelay + MaxTimeout
Timeouts == 1..MaxTimeout

\* ---------------------------------------------------------- vocabulary
\* `null` is the empty tuple; a non-null number n is <<n>>, a pending timer
\* is <<due, ms>>.
Null == <<>>
Streams == {"stdout", "stderr"}
\* Exit codes a child can end with: success and a failure.
ExitCodes == {0, 7}
\* exitCode reported by 'close' after a failed spawn (a negative errno).
SpawnErrno == 0 - 2

VARIABLES
    now,          \* the clock
    tb,           \* the TimeboxController instance's fields
    options,      \* ProcessExecutorOptions: timeoutMs, noOutputTimeoutMs
    phase,        \* "start": execute() not yet run; "spawned"; "tb": controller-only run
    startTime,    \* const startTime = Date.now()
    child,        \* the spawned ChildProcess as the operating system drives it
    logs,         \* const logs: LogEntry[]
    resolved,     \* let resolved = false
    result,       \* the value handed to resolve(), without its logs reference
    resolveCount, \* how many times resolve() was called
    deliveredLen, \* Len(logs) at the moment resolve() was called
    winner,       \* the trigger whose finalize() call resolved the promise
    killCount,    \* how many times treeKill() was called
    armCount,     \* how many times setHardTimeout/setNoOutputTimeout were called by execute()
    calls,        \* controller-only run: the callbacks invoked so far, in order
    rearmed,      \* controller-only run: a set*Timeout call followed the first callback
    killPending,  \* treeKill() calls whose completion callback has not run yet
    lastOp,       \* controller-only run: the last method called or callback run
    superseded,   \* controller-only run: the pending hard timer that the last setHardTimeout() replaced
    log,          \* log-extractor run: the log string, a sequence of code points
    ret,          \* function-call runs: the last call made, its arguments and what it returned
    wallClock,    \* report/tool run: the local wall-clock time, in seconds
    reports,      \* report/tool run: the names of the directories under the report base path
    input,        \* tool run: the input of the RunTestTool.execute() call
    spawned       \* tool run: how many times executor.execute() was called

\* The state of a run of the log extractor's functions.
extractorVars == <<log, ret>>

\* The state of a run of the report generator and of the run_test tool.
toolVars == <<wallClock, reports, input, spawned>>

vars == <<now, tb, options, phase, startTime, child, logs, resolved, result,
          resolveCount, deliveredLen, winner, killCount, armCount, calls,
          rearmed, killPending, lastOp, superseded, log, ret, wallClock,
          reports, input, spawned>>

\* No function has been called.
NoCall == [fn |-> "none"]

\* ------------------------------------------------- TimeboxController
\* Field initialisers of the class.
NewTimeboxController ==
    [ hardTimeoutId     |-> Null,
      noOutputTimeoutId |-> Null,
      noOutputTimeoutMs |-> Null,
      noOutputCallback  |-> FALSE,
      timedOut          |-> FALSE,
      timeoutType       |-> Null,
      hardFirst         |-> TRUE ]

\* setTimeout(cb, ms) called at time t: the timer object.
Timer(t, ms) == <<t + ms, ms>>
Due(timer) == timer[1]
Delay(timer) == timer[2]

\* Mutant of clear: only the hard timer is cancelled.
clearHardOnly(c) == [c EXCEPT !.hardTimeoutId = Null]

\* clear(): cancels and nulls both timer ids, keeps the saved settings.
clear(c) ==
    [c EXCEPT !.hardTimeoutId = Null, !.noOutputTimeoutId = Null]

\* Mutant of setHardTimeout: the timer is armed one millisecond short.
setHardTimeoutShort(c, ms, t) ==
    [c EXCEPT !.hardTimeoutId = Timer(t, ms - 1),
              !.hardFirst = (c.noOutputTimeoutId = Null)]

\* Mutant of setHardTimeout: no timer is armed.
setHardTimeoutUnarmed(c, ms, t) == c

\* Mutant of setHardTimeout: a pending hard timer is kept and the new call
\* is dropped.
setHardTimeoutKeepsEarlier(c, ms, t) ==
    IF c.hardTimeoutId # Null
    THEN c
    ELSE [c EXCEPT !.hardTimeoutId = Timer(t, ms),
                   !.hardFirst = (c.noOutputTimeoutId = Null)]

\* setHardTimeout(ms, onTimeout) at time t: replaces a pending hard timer.
\* hardFirst records whether the hard timer was inserted before the pending
\* no-output timer.
setHardTimeout(c, ms, t) ==
    [c EXCEPT !.hardTimeoutId = Timer(t, ms),
              !.hardFirst = (c.noOutputTimeoutId = Null)]

\* Mutant of resetNoOutputTimer: a pending timer is left running instead of
\* being restarted.
resetNoOutputTimerKeep(c, t) ==
    IF c.noOutputTimeoutMs # Null /\ c.noOutputCallback /\ c.noOutputTimeoutId = Null
    THEN [c EXCEPT !.noOutputTimeoutId = Timer(t, c.noOutputTimeoutMs[1]),
                   !.hardFirst = TRUE]
    ELSE c

\* resetNoOutputTimer() at time t.
resetNoOutputTimer(c, t) ==
    IF c.noOutputTimeoutMs # Null /\ c.noOutputCallback
    THEN [c EXCEPT !.noOutputTimeoutId = Timer(t, c.noOutputTimeoutMs[1]),
                   !.hardFirst = TRUE]
    ELSE c

\* Mutant of setNoOutputTimeout: a pending hard timer is restarted as well.
setNoOutputTimeoutRestartsHard(c, ms, t) ==
    resetNoOutputTimer(
        [c EXCEPT !.noOutputTimeoutMs = <<ms>>,
                  !.noOutputCallback = TRUE,
                  !.hardTimeoutId = IF c.hardTimeoutId = Null THEN Null
                                    ELSE Timer(t, Delay(c.hardTimeoutId))], t)

\* setNoOutputTimeout(ms, onTimeout) at time t.
setNoOutputTimeout(c, ms, t) ==
    resetNoOutputTimer([c EXCEPT !.noOutputTimeoutMs = <<ms>>,
                                 !.noOutputCallback = TRUE], t)

\* Mutant of notifyOutput: output restarts the hard timer as well.
notifyOutputResetsBoth(c, t) ==
    IF c.hardTimeoutId # Null
    THEN [c EXCEPT !.hardTimeoutId = Timer(t, Delay(c.hardTimeoutId)),
                   !.noOutputTimeoutId = Timer(t, c.noOutputTimeoutMs[1])]
    ELSE c

\* Mutant of notifyOutput: a notification leaves the pending timer running.
notifyOutputIgnored(c, t) == c

\* Mutant of notifyOutput: the timer is restarted without testing whether
\* a no-output timeout was ever set.
notifyOutputUnguarded(c, t) ==
    [c EXCEPT !.noOutputTimeoutId =
                  Timer(t, IF c.noOutputTimeoutMs = Null THEN 1
                           ELSE c.noOutputTimeoutMs[1])]

\* notifyOutput() at time t.
notifyOutput(c, t) ==
    IF c.noOutputTimeoutMs # Null /\ c.noOutputCallback
    THEN resetNoOutputTimer(c, t)
    ELSE c

\* The body of the hard timer's callback up to the call of onTimeout.
hardTimerBody(c) ==
    clear([c EXCEPT !.timedOut = TRUE, !.timeoutType = <<"hard">>])

\* Mutant of noOutputTimerBody: the timeout is recorded as a hard one.
noOutputTimerBodyAsHard(c) ==
    clear([c EXCEPT !.timedOut = TRUE, !.timeoutType = <<"hard">>])

\* The body of the no-output timer's callback up to the call of callback.
noOutputTimerBody(c) ==
    clear([c EXCEPT !.timedOut = TRUE, !.timeoutType = <<"no_output">>])

isTimedOut(c) == c.timedOut
getTimeoutType(c) == c.timeoutType

\* The event loop runs a due timer; of two due timers the one due earlier
\* runs first, of two timers of one delay due together the one inserted
\* first, and of two timers of different delays due together either.
TimersTied(c) ==
    /\ Due(c.hardTimeoutId) = Due(c.noOutputTimeoutId)
    /\ Delay(c.hardTimeoutId) = Delay(c.noOutputTimeoutId)

HardTimerDue(c, t) ==
    IF c.hardTimeoutId = Null THEN FALSE
    ELSE IF Due(c.hardTimeoutId) > t THEN FALSE
    ELSE IF c.noOutputTimeoutId = Null THEN TRUE
    ELSE IF TimersTied(c) THEN c.hardFirst
    ELSE Due(c.hardTimeoutId) <= Due(c.noOutputTimeoutId)

NoOutputTimerDue(c, t) ==
    IF c.noOutputTimeoutId = Null THEN FALSE
    ELSE IF Due(c.noOutputTimeoutId) > t THEN FALSE
    ELSE IF c.hardTimeoutId = Null THEN TRUE
    ELSE IF TimersTied(c) THEN ~c.hardFirst
    ELSE Due(c.noOutputTimeoutId) <= Due(c.hardTimeoutId)

\* --------------------------------------------------- ProcessExecutor
\* The value of result before resolve() is called.
NoResult ==
    [status |-> "pending", exitCode |-> Null, durationMs |-> 0,
     timedOut |-> FALSE, noOutput |-> FALSE]

\* No ChildProcess: let childProcess = null.
NoChild ==
    [kind |-> "none", pid |-> FALSE, alive |-> FALSE, exitCode |-> Null,
     stdout |-> FALSE, stderr |-> FALSE, stdinEnded |-> FALSE,
     errorPending |-> FALSE, closeEmitted |-> FALSE]

\* spawn() returned a running child: it has a pid and open pipes.
RunningChild ==
    [NoChild EXCEPT !.kind = "ok", !.pid = TRUE, !.alive = TRUE,
                    !.stdout = TRUE, !.stderr = TRUE]

\* spawn() returned a ChildProcess whose start failed (ENOENT, EACCES, ...):
\* no pid, and 'error' is queued with process.nextTick; 'close' follows it.
FailedChild ==
    [NoChild EXCEPT !.kind = "failed", !.exitCode = <<SpawnErrno>>,
                    !.errorPending = TRUE]

\* Mutant of finalize: the `if (resolved) return` guard is missing.
finalizeUnguarded(c, res, w) ==
    /\ resolved' = TRUE
    /\ tb' = clear(c)
    /\ result' = res
    /\ resolveCount' = resolveCount + 1
    /\ deliveredLen' = Len(logs)
    /\ winner' = w

\* Mutant of finalize: timebox.clear() is missing.
finalizeNoClear(c, res, w) ==
    IF resolved
    THEN /\ tb' = c
         /\ UNCHANGED <<resolved, result, resolveCount, deliveredLen, winner>>
    ELSE /\ resolved' = TRUE
         /\ tb' = c
         /\ result' = res
         /\ resolveCount' = resolveCount + 1
         /\ deliveredLen' = Len(logs)
         /\ winner' = w

\* finalize(result), entered with the controller in state c, called by
\* trigger w.
finalize(c, res, w) ==
    IF resolved
    THEN /\ tb' = c
         /\ UNCHANGED <<resolved, result, resolveCount, deliveredLen, winner>>
    ELSE /\ resolved' = TRUE
         /\ tb' = clear(c)
         /\ result' = res
         /\ resolveCount' = resolveCount + 1
         /\ deliveredLen' = Len(logs)
         /\ winner' = w

\* Mutant of killProcess: the result is delivered from treeKill's completion
\* callback instead of right after the request.
killProcessWaits(c, timeoutType) ==
    /\ killCount' = IF child.kind # "none" /\ child.pid
                    THEN killCount + 1 ELSE killCount
    /\ killPending' = IF child.kind # "none" /\ child.pid
                      THEN killPending + 1 ELSE killPending
    /\ tb' = c
    /\ UNCHANGED <<resolved, result, resolveCount, deliveredLen, winner>>

\* Mutant of killProcess: timedOut is set for either kind of timeout.
killProcessBothFlags(c, timeoutType) ==
    /\ killCount' = IF child.kind # "none" /\ child.pid
                    THEN killCount + 1 ELSE killCount
    /\ killPending' = IF child.kind # "none" /\ child.pid
                      THEN killPending + 1 ELSE killPending
    /\ finalize(c,
                [status     |-> IF timeoutType = "no_output"
                                THEN "no_output" ELSE "timeout",
                 exitCode   |-> Null,
                 durationMs |-> now - startTime,
                 timedOut   |-> TRUE,
                 noOutput   |-> timeoutType = "no_output"],
                timeoutType)

\* killProcess(timeoutType), entered with the controller in state c.
killProcess(c, timeoutType) ==
    /\ killCount' = IF child.kind # "none" /\ child.pid
                    THEN killCount + 1 ELSE killCount
    /\ killPending' = IF child.kind # "none" /\ child.pid
                      THEN killPending + 1 ELSE killPending
    /\ finalize(c,
                [status     |-> IF timeoutType = "no_output"
                                THEN "no_output" ELSE "timeout",
                 exitCode   |-> Null,
                 durationMs |-> now - startTime,
                 timedOut   |-> timeoutType # "no_output",
                 noOutput   |-> timeoutType = "no_output"],
                timeoutType)

\* Mutant of ErrorResult: a start failure is reported as a test failure.
ErrorResultFail(t) ==
    [status |-> "fail", exitCode |-> <<1>>, durationMs |-> t - startTime,
     timedOut |-> FALSE, noOutput |-> FALSE]

\* The result built by the 'error' listener and by the catch block.
ErrorResult(t) ==
    [status |-> "error", exitCode |-> Null, durationMs |-> t - startTime,
     timedOut |-> FALSE, noOutput |-> FALSE]

\* Mutant of CloseResult: every failure is reported with exit code 1.
CloseResultOne(code, t) ==
    [status     |-> IF code = <<0>> THEN "pass" ELSE "fail",
     exitCode   |-> IF code = <<0>> THEN code ELSE <<1>>,
     durationMs |-> t - startTime,
     timedOut   |-> FALSE,
     noOutput   |-> FALSE]

\* The result built by the 'close' listener for exit code `code` (or null).
CloseResult(code, t) ==
    [status     |-> IF code = <<0>> THEN "pass" ELSE "fail",
     exitCode   |-> code,
     durationMs |-> t - startTime,
     timedOut   |-> FALSE,
     noOutput   |-> FALSE]

\* Mutant of Execute: childProcess.stdin.end() is left out.
ExecuteKeepsStdin(outcome, d) ==
    /\ phase = "start"
    /\ phase' = "spawned"
    /\ now' = now + d
    /\ UNCHANGED <<options, startTime, logs, killCount, calls, rearmed, lastOp, superseded, killPending,
                   extractorVars, toolVars>>
    /\ CASE outcome = "spawnThrows" ->
              /\ child' = NoChild
              /\ armCount' = armCount
              /\ finalize(tb, ErrorResult(now'), "catch")
         [] outcome = "stdinThrows" ->
              /\ child' = RunningChild
              /\ armCount' = armCount
              /\ finalize(tb, ErrorResult(now'), "catch")
         [] outcome = "armThrows" ->
              /\ child' = RunningChild
              /\ armCount' = armCount + 1
              /\ finalize(setHardTimeout(tb, options.timeoutMs, now'),
                          ErrorResult(now'), "catch")
         [] outcome = "spawnFails" ->
              /\ child' = FailedChild
              /\ armCount' = armCount + 2
              /\ tb' = setNoOutputTimeout(
                           setHardTimeout(tb, options.timeoutMs, now'),
                           options.noOutputTimeoutMs, now')
              /\ UNCHANGED <<resolved, result, resolveCount, deliveredLen, winner>>
         [] outcome = "ok" ->
              /\ child' = RunningChild
              /\ armCount' = armCount + 2
              /\ tb' = setNoOutputTimeout(
                           setHardTimeout(tb, options.timeoutMs, now'),
                           options.noOutputTimeoutMs, now')
              /\ UNCHANGED <<resolved, result, resolveCount, deliveredLen, winner>>

\* Mutant of Execute: the no-output deadline is armed before the hard one.
ExecuteArmsNoOutputFirst(outcome, d) ==
    /\ phase = "start"
    /\ phase' = "spawned"
    /\ now' = now + d
    /\ UNCHANGED <<options, startTime, logs, killCount, calls, rearmed, lastOp, superseded, killPending,
                   extractorVars, toolVars>>
    /\ CASE outcome = "spawnThrows" ->
              /\ child' = NoChild
              /\ armCount' = armCount
              /\ finalize(tb, ErrorResult(now'), "catch")
         [] outcome = "stdinThrows" ->
              /\ child' = RunningChild
              /\ armCount' = armCount
              /\ finalize(tb, ErrorResult(now'), "catch")
         [] outcome = "armThrows" ->
              /\ child' = [RunningChild EXCEPT !.stdinEnded = TRUE]
              /\ armCount' = armCount + 1
              /\ finalize(setHardTimeout(tb, options.timeoutMs, now'),
                          ErrorResult(now'), "catch")
         [] outcome = "spawnFails" ->
              /\ child' = [FailedChild EXCEPT !.stdinEnded = TRUE]
              /\ armCount' = armCount + 2
              /\ tb' = setHardTimeout(
                           setNoOutputTimeout(tb, options.noOutputTimeoutMs,
                                              now'),
                           options.timeoutMs, now')
              /\ UNCHANGED <<resolved, result, resolveCount, deliveredLen, winner>>
         [] outcome = "ok" ->
              /\ child' = [RunningChild EXCEPT !.stdinEnded = TRUE]
              /\ armCount' = armCount + 2
              /\ tb' = setHardTimeout(
                           setNoOutputTimeout(tb, options.noOutputTimeoutMs,
                                              now'),
                           options.timeoutMs, now')
              /\ UNCHANGED <<resolved, result, resolveCount, deliveredLen, winner>>

\* The promise executor of execute(): spawn, stdin.end(), arming, listener
\* registration, and the catch block.  `outcome` is what spawn() does and
\* where a synchronous exception is raised; d is the time the synchronous
\* block has taken when the timers are armed.
Execute(outcome, d) ==
    /\ phase = "start"
    /\ phase' = "spawned"
    /\ now' = now + d
    /\ UNCHANGED <<options, startTime, logs, killCount, calls, rearmed, lastOp, superseded, killPending,
                   extractorVars, toolVars>>
    /\ CASE outcome = "spawnThrows" ->
              /\ child' = NoChild
              /\ armCount' = armCount
              /\ finalize(tb, ErrorResult(now'), "catch")
         [] outcome = "stdinThrows" ->
              /\ child' = RunningChild
              /\ armCount' = armCount
              /\ finalize(tb, ErrorResult(now'), "catch")
         [] outcome = "armThrows" ->
              /\ child' = [RunningChild EXCEPT !.stdinEnded = TRUE]
              /\ armCount' = armCount + 1
              /\ finalize(setHardTimeout(tb, options.timeoutMs, now'),
                          ErrorResult(now'), "catch")
         [] outcome = "spawnFails" ->
              /\ child' = [FailedChild EXCEPT !.stdinEnded = TRUE]
              /\ armCount' = armCount + 2
              /\ tb' = setNoOutputTimeout(
                           setHardTimeout(tb, options.timeoutMs, now'),
                           options.noOutputTimeoutMs, now')
              /\ UNCHANGED <<resolved, result, resolveCount, deliveredLen, winner>>
         [] outcome = "ok" ->
              /\ child' = [RunningChild EXCEPT !.stdinEnded = TRUE]
              /\ armCount' = armCount + 2
              /\ tb' = setNoOutputTimeout(
                           setHardTimeout(tb, options.timeoutMs, now'),
                           options.noOutputTimeoutMs, now')
              /\ UNCHANGED <<resolved, result, resolveCount, deliveredLen, winner>>

SpawnOutcomes == {"spawnThrows", "stdinThrows", "armThrows", "spawnFails", "ok"}

\* Callbacks queued with process.nextTick run before any timer or I/O event.
NextTickPending == child.errorPending

\* Mutant of Listening: the listeners are registered before the deadlines
\* are armed.
ListeningEarly == phase = "spawned" /\ child.kind # "none" /\ child.stdinEnded

\* Listeners exist only once the promise executor has registered them.
Listening == phase = "spawned" /\ child.kind # "none" /\ child.stdinEnded
             /\ armCount = 2

\* Mutant of OnData: the entry is put at the front of the log (unshift).
OnDataUnshift(s) ==
    /\ Listening /\ ~NextTickPending
    /\ child[s]
    /\ Len(logs) < MaxChunks
    /\ logs' = <<[timestamp |-> now, stream |-> s, data |-> Len(logs) + 1]>>
                \o logs
    /\ tb' = notifyOutput(tb, now)
    /\ UNCHANGED <<now, options, phase, startTime, child, resolved, result,
                   resolveCount, deliveredLen, winner, killCount, armCount,
                   calls, rearmed, lastOp, superseded, killPending,
                   extractorVars, toolVars>>

\* Mutant of OnData: only stdout chunks notify the controller.
OnDataStderrSilent(s) ==
    /\ Listening /\ ~NextTickPending
    /\ child[s]
    /\ Len(logs) < MaxChunks
    /\ logs' = Append(logs, [timestamp |-> now, stream |-> s, data |-> Len(logs) + 1])
    /\ tb' = IF s = "stdout" THEN notifyOutput(tb, now) ELSE tb
    /\ UNCHANGED <<now, options, phase, startTime, child, resolved, result,
                   resolveCount, deliveredLen, winner, killCount, armCount, calls, rearmed, lastOp, superseded, killPending,
                   extractorVars, toolVars>>

\* stdout/stderr 'data' listener for a chunk on stream s; the k-th chunk the
\* child writes carries the payload k.
OnData(s) ==
    /\ Listening /\ ~NextTickPending
    /\ child[s]
    /\ Len(logs) < MaxChunks
    /\ logs' = Append(logs, [timestamp |-> now, stream |-> s, data |-> Len(logs) + 1])
    /\ tb' = notifyOutput(tb, now)
    /\ UNCHANGED <<now, options, phase, startTime, child, resolved, result,
                   resolveCount, deliveredLen, winner, killCount, armCount, calls, rearmed, lastOp, superseded, killPending,
                   extractorVars, toolVars>>

\* Mutant of OnClose: the listener runs as soon as the process has ended,
\* like an 'exit' listener, with the pipes possibly still open.
OnCloseAtExit ==
    /\ Listening /\ ~NextTickPending
    /\ ~child.alive /\ ~child.closeEmitted
    /\ child' = [child EXCEPT !.closeEmitted = TRUE]
    /\ finalize(tb, CloseResult(child.exitCode, now), "close")
    /\ UNCHANGED <<now, options, phase, startTime, logs, killCount, armCount, calls, rearmed, lastOp, superseded, killPending,
                   extractorVars, toolVars>>

\* 'close' listener: the process has ended and both pipes are closed.
OnClose ==
    /\ Listening /\ ~NextTickPending
    /\ ~child.alive /\ ~child.stdout /\ ~child.stderr /\ ~child.closeEmitted
    /\ child' = [child EXCEPT !.closeEmitted = TRUE]
    /\ finalize(tb, CloseResult(child.exitCode, now), "close")
    /\ UNCHANGED <<now, options, phase, startTime, logs, killCount, armCount, calls, rearmed, lastOp, superseded, killPending,
                   extractorVars, toolVars>>

\* 'error' listener.
OnError ==
    /\ Listening /\ child.errorPending
    /\ child' = [child EXCEPT !.errorPending = FALSE]
    /\ finalize(tb, ErrorResult(now), "error")
    /\ UNCHANGED <<now, options, phase, startTime, logs, killCount, armCount, calls, rearmed, lastOp, superseded, killPending,
                   extractorVars, toolVars>>

\* The hard timer fires: the callback set by setHardTimeout, which calls
\* killProcess('hard').
HardTimeoutFires ==
    /\ phase = "spawned" /\ ~NextTickPending
    /\ HardTimerDue(tb, now)
    /\ killProcess(hardTimerBody(tb), "hard")
    /\ UNCHANGED <<now, options, phase, startTime, child, logs, armCount, calls, rearmed, lastOp, superseded,
                   extractorVars, toolVars>>

\* The no-output timer fires: the callback set by resetNoOutputTimer, which
\* calls killProcess('no_output').
NoOutputTimeoutFires ==
    /\ phase = "spawned" /\ ~NextTickPending
    /\ NoOutputTimerDue(tb, now)
    /\ killProcess(noOutputTimerBody(tb), "no_output")
    /\ UNCHANGED <<now, options, phase, startTime, child, logs, armCount, calls, rearmed, lastOp, superseded,
                   extractorVars, toolVars>>

\* treeKill's completion callback, with or without an error: it writes to
\* console.error at most.
KillCallback(err) ==
    /\ phase = "spawned"
    /\ killPending > 0
    /\ killPending' = killPending - 1
    /\ UNCHANGED <<now, tb, options, phase, startTime, child, logs, resolved,
                   result, resolveCount, deliveredLen, winner, killCount,
                   armCount, calls, rearmed, lastOp, superseded,
                   extractorVars, toolVars>>

\* ------------------------------------------------ the child's own steps
\* The child exits by itself with code c.
ChildExits(c) ==
    /\ phase = "spawned" /\ child.kind = "ok" /\ child.alive
    /\ child' = [child EXCEPT !.alive = FALSE, !.exitCode = <<c>>]
    /\ UNCHANGED <<now, tb, options, phase, startTime, logs, resolved, result,
                   resolveCount, deliveredLen, winner, killCount, armCount, calls, rearmed, lastOp, superseded, killPending,
                   extractorVars, toolVars>>

\* A signal ends the child (the SIGKILL sent by treeKill, or any other):
\* its exit code is null.
ChildKilled ==
    /\ phase = "spawned" /\ child.kind = "ok" /\ child.alive
    /\ child' = [child EXCEPT !.alive = FALSE, !.exitCode = Null]
    /\ UNCHANGED <<now, tb, options, phase, startTime, logs, resolved, result,
                   resolveCount, deliveredLen, winner, killCount, armCount, calls, rearmed, lastOp, superseded, killPending,
                   extractorVars, toolVars>>

\* Pipe s reaches end of file.
StreamEnds(s) ==
    /\ phase = "spawned" /\ child.kind = "ok" /\ child[s]
    /\ child' = [child EXCEPT ![s] = FALSE]
    /\ UNCHANGED <<now, tb, options, phase, startTime, logs, resolved, result,
                   resolveCount, deliveredLen, winner, killCount, armCount, calls, rearmed, lastOp, superseded, killPending,
                   extractorVars, toolVars>>

\* A millisecond passes.
Tick ==
    /\ phase = "spawned"
    /\ now < MaxTime
    /\ now' = now + 1
    /\ UNCHANGED <<tb, options, phase, startTime, child, logs, resolved, result,
                   resolveCount, deliveredLen, winner, killCount, armCount, calls, rearmed, lastOp, superseded, killPending,
                   extractorVars, toolVars>>

Init ==
    /\ now = 0
    /\ tb = NewTimeboxController
    /\ options \in [timeoutMs : Timeouts, noOutputTimeoutMs : Timeouts]
    /\ phase = "start"
    /\ startTime = 0
    /\ child = NoChild
    /\ logs = <<>>
    /\ resolved = FALSE
    /\ result = NoResult
    /\ resolveCount = 0
    /\ deliveredLen = 0
    /\ winner = "none"
    /\ killCount = 0
    /\ armCount = 0
    /\ calls = <<>>
    /\ rearmed = FALSE
    /\ killPending = 0
    /\ lastOp = "none"
    /\ superseded = Null
    /\ log = <<>>
    /\ ret = NoCall
    /\ wallClock = 0
    /\ reports = {}
    /\ input = Null
    /\ spawned = 0

Next ==
    \/ \E o \in SpawnOutcomes, d \in 0..MaxSpawnDelay : Execute(o, d)
    \/ \E s \in Streams : OnData(s)
    \/ OnClose
    \/ OnError
    \/ HardTimeoutFires
    \/ NoOutputTimeoutFires
    \/ \E err \in BOOLEAN : KillCallback(err)
    \/ \E c \in ExitCodes : ChildExits(c)
    \/ ChildKilled
    \/ \E s \in Streams : StreamEnds(s)
    \/ Tick

Spec == Init /\ [][Next]_vars

\* A run of execute() in which the event loop keeps running: time passes,
\* due timers fire and queued nextTick callbacks run.  Nothing is assumed of
\* the child.
FairSpec ==
    /\ Spec
    /\ WF_vars(\E o \in SpawnOutcomes, d \in 0..MaxSpawnDelay : Execute(o, d))
    /\ WF_vars(Tick)
    /\ WF_vars(OnError)
    /\ WF_vars(HardTimeoutFires)
    /\ WF_vars(NoOutputTimeoutFires)

\* ------------------------------------ a TimeboxController driven directly
\* A client calls the controller's methods in any order, as the unit tests
\* do; each callback invoked is appended to calls.
TBUnchanged == UNCHANGED <<options, phase, startTime, child, logs, resolved,
                           result, resolveCount, deliveredLen, winner,
                           killCount, armCount, killPending, extractorVars, toolVars>>

TBSetHardTimeout(ms) ==
    /\ phase = "tb"
    /\ tb' = setHardTimeout(tb, ms, now)
    /\ rearmed' = (rearmed \/ calls # <<>>)
    /\ lastOp' = "setHardTimeout"
    /\ superseded' = tb.hardTimeoutId
    /\ UNCHANGED <<now, calls>> /\ TBUnchanged

TBSetNoOutputTimeout(ms) ==
    /\ phase = "tb"
    /\ tb' = setNoOutputTimeout(tb, ms, now)
    /\ rearmed' = (rearmed \/ calls # <<>>)
    /\ lastOp' = "setNoOutputTimeout"
    /\ UNCHANGED <<now, calls, superseded>> /\ TBUnchanged

TBNotifyOutput ==
    /\ phase = "tb"
    /\ tb' = notifyOutput(tb, now)
    /\ lastOp' = "notifyOutput"
    /\ UNCHANGED <<now, calls, rearmed, superseded>> /\ TBUnchanged

TBClear ==
    /\ phase = "tb"
    /\ tb' = clear(tb)
    /\ lastOp' = "clear"
    /\ UNCHANGED <<now, calls, rearmed, superseded>> /\ TBUnchanged

TBHardTimeoutFires ==
    /\ phase = "tb"
    /\ HardTimerDue(tb, now)
    /\ tb' = hardTimerBody(tb)
    /\ calls' = Append(calls, "hard")
    /\ lastOp' = "hardTimer"
    /\ UNCHANGED <<now, rearmed, superseded>> /\ TBUnchanged

TBNoOutputTimeoutFires ==
    /\ phase = "tb"
    /\ NoOutputTimerDue(tb, now)
    /\ tb' = noOutputTimerBody(tb)
    /\ calls' = Append(calls, "no_output")
    /\ lastOp' = "noOutputTimer"
    /\ UNCHANGED <<now, rearmed, superseded>> /\ TBUnchanged

TBTick ==
    /\ phase = "tb"
    /\ now < MaxTime
    /\ now' = now + 1
    /\ UNCHANGED <<tb, calls, rearmed, lastOp, superseded>> /\ TBUnchanged

InitTB ==
    /\ now = 0
    /\ tb = NewTimeboxController
    /\ options = [timeoutMs |-> 1, noOutputTimeoutMs |-> 1]
    /\ phase = "tb"
    /\ startTime = 0
    /\ child = NoChild
    /\ logs = <<>>
    /\ resolved = FALSE
    /\ result = NoResult
    /\ resolveCount = 0
    /\ deliveredLen = 0
    /\ winner = "none"
    /\ killCount = 0
    /\ armCount = 0
    /\ calls = <<>>
    /\ rearmed = FALSE
    /\ killPending = 0
    /\ lastOp = "none"
    /\ superseded = Null
    /\ log = <<>>
    /\ ret = NoCall
    /\ wallClock = 0
    /\ reports = {}
    /\ input = Null
    /\ spawned = 0

NextTB ==
    \/ \E ms \in Timeouts : TBSetHardTimeout(ms)
    \/ \E ms \in Timeouts : TBSetNoOutputTimeout(ms)
    \/ TBNotifyOutput
    \/ TBClear
    \/ TBHardTimeoutFires
    \/ TBNoOutputTimeoutFires
    \/ TBTick

SpecTB == InitTB /\ [][NextTB]_vars

\* ------------------------------------------------------- LogExtractor
\* A string is the sequence of its code points (all in the basic plane, so
\* one UTF-16 unit each); a byte array is a sequence of numbers 0..255.
MaxLogLen == 4

\* '\n'
LF == 10
\* U+FFFD, what a non-fatal TextDecoder puts for a byte it cannot decode.
ReplacementChar == 65533
\* The characters logs are made of: '\n', 'E', 'F', 'a' and the three-byte
\* U+3042.
Alphabet == {LF, 69, 70, 97, 12354}
LogStrings == UNION {[1..n -> Alphabet] : n \in 0..MaxLogLen}

\* TextEncoder.encode() of one code point below U+10000.
encodeChar(cp) ==
    IF cp < 128 THEN <<cp>>
    ELSE IF cp < 2048 THEN <<192 + (cp \div 64), 128 + (cp % 64)>>
    ELSE <<224 + (cp \div 4096), 128 + ((cp \div 64) % 64), 128 + (cp % 64)>>

\* encoder.encode(str)
RECURSIVE encode(_)
encode(str) ==
    IF str = <<>> THEN <<>> ELSE encodeChar(Head(str)) \o encode(Tail(str))

IsContinuation(b) == b >= 128 /\ b <= 191

\* decoder.decode(bytes) with fatal: false, for sequences of up to three
\* bytes: a byte that does not start a complete sequence decodes to U+FFFD
\* by itself.
RECURSIVE decode(_)
decode(bytes) ==
    IF bytes = <<>> THEN <<>>
    ELSE IF bytes[1] < 128
    THEN <<bytes[1]>> \o decode(Tail(bytes))
    ELSE IF /\ bytes[1] >= 194 /\ bytes[1] <= 223
            /\ Len(bytes) >= 2 /\ IsContinuation(bytes[2])
    THEN <<(bytes[1] - 192) * 64 + (bytes[2] - 128)>>
         \o decode(SubSeq(bytes, 3, Len(bytes)))
    ELSE IF /\ bytes[1] >= 224 /\ bytes[1] <= 239
            /\ Len(bytes) >= 3
            /\ IsContinuation(bytes[2]) /\ IsContinuation(bytes[3])
    THEN <<(bytes[1] - 224) * 4096 + (bytes[2] - 128) * 64 + (bytes[3] - 128)>>
         \o decode(SubSeq(bytes, 4, Len(bytes)))
    ELSE <<ReplacementChar>> \o decode(Tail(bytes))

\* Math.max, Math.min
Max(a, b) == IF a >= b THEN a ELSE b
Min(a, b) == IF a <= b THEN a ELSE b

\* str.indexOf(ch): the 0-based index of the first occurrence, or -1.
indexOf(str, ch) ==
    IF \E k \in 1..Len(str) : str[k] = ch
    THEN (CHOOSE k \in 1..Len(str) :
              str[k] = ch /\ \A j \in 1..(k - 1) : str[j] # ch) - 1
    ELSE 0 - 1

\* seq.slice(start) for start >= 0.
slice(seq, start) == SubSeq(seq, start + 1, Len(seq))

\* seq.slice(-n) for n > 0: the last n elements, all of them when fewer.
sliceLast(seq, n) ==
    IF n >= Len(seq) THEN seq ELSE SubSeq(seq, Len(seq) - n + 1, Len(seq))

\* str.split('\n')
RECURSIVE split(_)
split(str) ==
    LET i == indexOf(str, LF)
    IN  IF i < 0 THEN <<str>>
        ELSE <<SubSeq(str, 1, i)>> \o split(slice(str, i + 1))

\* getTailBytes(log, maxBytes)
getTailBytes(str, maxBytes) ==
    LET encoded == encode(str)
    IN  IF Len(encoded) <= maxBytes
        THEN str
        ELSE LET tailBytes == sliceLast(encoded, maxBytes)
                 decoded == decode(tailBytes)
                 firstNewline == indexOf(decoded, LF)
             IN  IF firstNewline > 0
                 THEN slice(decoded, firstNewline + 1)
                 ELSE decoded

\* while (lines.length > 0 && lines[lines.length - 1] === '') lines.pop()
RECURSIVE popEmpty(_)
popEmpty(lines) ==
    IF lines # <<>> /\ lines[Len(lines)] = <<>>
    THEN popEmpty(SubSeq(lines, 1, Len(lines) - 1))
    ELSE lines

\* Mutant of getTailLines: the first lineCount lines are returned.
getTailLinesHead(str, lineCount) ==
    IF str = <<>> \/ lineCount <= 0
    THEN <<>>
    ELSE SubSeq(popEmpty(split(str)), 1,
                Min(lineCount, Len(popEmpty(split(str)))))

\* getTailLines(log, lineCount)
getTailLines(str, lineCount) ==
    IF str = <<>> \/ lineCount <= 0
    THEN <<>>
    ELSE sliceLast(popEmpty(split(str)), lineCount)

\* A RegExp that matches the one character `source`, with or without the g
\* flag.
RegExps == [source : {69, 70}, global : BOOLEAN]

\* pattern.test(line) for a pattern whose lastIndex is lastIndex: whether it
\* matched and the lastIndex it leaves.  Without the g flag the search
\* starts at 0 and lastIndex stays 0; with it the search starts at lastIndex
\* and lastIndex becomes the end of the match, or 0 when there is none.
test(pattern, line, lastIndex) ==
    LET from == IF pattern.global THEN lastIndex ELSE 0
        hits == {k \in 1..Len(line) : k > from /\ line[k] = pattern.source}
    IN  IF hits = {}
        THEN [matched |-> FALSE, lastIndex |-> 0]
        ELSE [matched |-> TRUE,
              lastIndex |-> IF pattern.global
                            THEN CHOOSE k \in hits : \A j \in hits : k <= j
                            ELSE 0]

\* Mutant of ExtractedBlock: the context is sliced without its last line.
ExtractedBlockEndExclusive(lines, i, pattern, contextLines) ==
    LET contextStart == Max(0, i - contextLines)
        contextEnd == Min(Len(lines) - 1, i + contextLines)
    IN  [lineNumber       |-> i,
         matchedLine      |-> lines[i + 1],
         pattern          |-> pattern.source,
         contextLines     |-> SubSeq(lines, contextStart + 1, contextEnd),
         contextStartLine |-> contextStart,
         contextEndLine   |-> contextEnd]

\* The block pushed for the line with 0-based number i.
ExtractedBlock(lines, i, pattern, contextLines) ==
    LET contextStart == Max(0, i - contextLines)
        contextEnd == Min(Len(lines) - 1, i + contextLines)
    IN  [lineNumber       |-> i,
         matchedLine      |-> lines[i + 1],
         pattern          |-> pattern.source,
         contextLines     |-> SubSeq(lines, contextStart + 1, contextEnd + 1),
         contextStartLine |-> contextStart,
         contextEndLine   |-> contextEnd]

\* for (const pattern of patterns) from the j-th pattern on, for line i:
\* the index of the first pattern whose test() succeeds (0 when none does)
\* and the lastIndex values the tests leave.
RECURSIVE firstMatch(_, _, _, _)
firstMatch(line, patterns, j, lastIndexes) ==
    IF j > Len(patterns)
    THEN [hit |-> 0, lastIndexes |-> lastIndexes]
    ELSE LET t == test(patterns[j], line, lastIndexes[j])
             after == [lastIndexes EXCEPT ![j] = t.lastIndex]
         IN  IF t.matched
             THEN [hit |-> j, lastIndexes |-> after]
             ELSE firstMatch(line, patterns, j + 1, after)

\* for (let i = 0; i < lines.length; i++) from line i on.
RECURSIVE scanLines(_, _, _, _, _)
scanLines(lines, i, patterns, contextLines, lastIndexes) ==
    IF i >= Len(lines)
    THEN <<>>
    ELSE LET m == firstMatch(lines[i + 1], patterns, 1, lastIndexes)
         IN  (IF m.hit > 0
              THEN <<ExtractedBlock(lines, i, patterns[m.hit], contextLines)>>
              ELSE <<>>)
             \o scanLines(lines, i + 1, patterns, contextLines, m.lastIndexes)

\* Mutant of extractImportantLines: maxBytes is ignored and the whole log is
\* searched.
extractImportantLinesWholeLog(str, opts) ==
    IF str = <<>>
    THEN <<>>
    ELSE scanLines(split(str), 0, opts.patterns, opts.contextLines,
                   [j \in 1..Len(opts.patterns) |-> 0])

\* extractImportantLines(log, {maxBytes, contextLines, patterns}) with
\* freshly created patterns; maxBytes is Null when it is not given.
extractImportantLines(str, opts) ==
    LET targetLog == IF opts.maxBytes # Null
                     THEN getTailBytes(str, opts.maxBytes[1])
                     ELSE str
    IN  IF targetLog = <<>>
        THEN <<>>
        ELSE scanLines(split(targetLog), 0, opts.patterns, opts.contextLines,
                       [j \in 1..Len(opts.patterns) |-> 0])

\* The arguments the functions are called with.
ByteLimits == 1..(MaxLogLen + 2)
LineCounts == (0 - 1)..MaxLogLen
ContextSizes == 0..(MaxLogLen - 2)
PatternLists ==
    {<<>>} \cup {<<p>> : p \in RegExps}
           \cup {<<p, q>> : p \in RegExps,
                            q \in {r \in RegExps : ~r.global}}
ExtractOptions ==
    [maxBytes : {Null} \cup {<<n>> : n \in ByteLimits},
     contextLines : ContextSizes,
     patterns : PatternLists]

\* A run is one call of one function on the log.
LogUnchanged ==
    UNCHANGED <<now, tb, options, phase, startTime, child, logs, resolved,
                result, resolveCount, deliveredLen, winner, killCount,
                armCount, calls, rearmed, killPending, lastOp, superseded,
                log, toolVars>>

CallGetTailBytes(maxBytes) ==
    /\ phase = "log" /\ ret = NoCall
    /\ ret' = [fn |-> "getTailBytes", maxBytes |-> maxBytes,
               value |-> getTailBytes(log, maxBytes)]
    /\ LogUnchanged

CallGetTailLines(lineCount) ==
    /\ phase = "log" /\ ret = NoCall
    /\ ret' = [fn |-> "getTailLines", lineCount |-> lineCount,
               value |-> getTailLines(log, lineCount)]
    /\ LogUnchanged

CallExtractImportantLines(opts) ==
    /\ phase = "log" /\ ret = NoCall
    /\ ret' = [fn |-> "extractImportantLines", options |-> opts,
               value |-> extractImportantLines(log, opts)]
    /\ LogUnchanged

InitLog ==
    /\ now = 0
    /\ tb = NewTimeboxController
    /\ options = [timeoutMs |-> 1, noOutputTimeoutMs |-> 1]
    /\ phase = "log"
    /\ startTime = 0
    /\ child = NoChild
    /\ logs = <<>>
    /\ resolved = FALSE
    /\ result = NoResult
    /\ resolveCount = 0
    /\ deliveredLen = 0
    /\ winner = "none"
    /\ killCount = 0
    /\ armCount = 0
    /\ calls = <<>>
    /\ rearmed = FALSE
    /\ killPending = 0
    /\ lastOp = "none"
    /\ superseded = Null
    /\ log \in LogStrings
    /\ ret = NoCall
    /\ wallClock = 0
    /\ reports = {}
    /\ input = Null
    /\ spawned = 0

NextLog ==
    \/ \E maxBytes \in ByteLimits : CallGetTailBytes(maxBytes)
    \/ \E lineCount \in LineCounts : CallGetTailLines(lineCount)
    \/ \E opts \in ExtractOptions : CallExtractImportantLines(opts)

SpecLog == InitLog /\ [][NextLog]_vars

\* ================================================== command builder
\* Strings are sequences of code points, as in the log extractor. An absent
\* target and the empty string are both <<>>: the code tests the target for
\* falsiness only (`!target`).
MaxTargetLen == 3

\* 'a', ' ', '-', ';', '\n'
TargetAlphabet == {97, 32, 45, 59, 10}

TargetStrings == UNION {[1..n -> TargetAlphabet] : n \in 0..MaxTargetLen}

ALLOWED_RUNNERS == {"flutter", "vitest", "pytest", "jest"}

ALLOWED_SCOPES == {"all", "file", "pattern"}

\* 'flutter', 'npx', 'pytest'
FlutterCmd == <<102, 108, 117, 116, 116, 101, 114>>
NpxCmd == <<110, 112, 120>>
PytestCmd == <<112, 121, 116, 101, 115, 116>>

\* 'test', 'vitest', 'run', 'jest'
TestArg == <<116, 101, 115, 116>>
VitestArg == <<118, 105, 116, 101, 115, 116>>
RunArg == <<114, 117, 110>>
JestArg == <<106, 101, 115, 116>>

\* '--name', '-t', '-k'
NameFlag == <<45, 45, 110, 97, 109, 101>>
TFlag == <<45, 116>>
KFlag == <<45, 107>>

\* One template of COMMAND_TEMPLATES; targetArgFormat is "none" where the
\* template has no such field, targetFlag is Null where it has none.
CommandTemplate(command, baseArgs, scope, flag) ==
    [command |-> command,
     baseArgs |-> baseArgs,
     targetArgFormat |-> CASE scope = "all" -> "none"
                           [] scope = "file" -> "positional"
                           [] scope = "pattern" -> "named",
     targetFlag |-> IF scope = "pattern" THEN flag ELSE Null]

COMMAND_TEMPLATES ==
    [runner \in ALLOWED_RUNNERS |-> [scope \in ALLOWED_SCOPES |->
        CASE runner = "flutter" ->
               CommandTemplate(FlutterCmd, <<TestArg>>, scope, NameFlag)
          [] runner = "vitest" ->
               CommandTemplate(NpxCmd, <<VitestArg, RunArg>>, scope, TFlag)
          [] runner = "pytest" ->
               CommandTemplate(PytestCmd, <<>>, scope, KFlag)
          [] runner = "jest" ->
               CommandTemplate(NpxCmd, <<JestArg>>, scope, TFlag)]]

\* The function threw an Error instead of returning.
Thrown == [threw |-> TRUE, command |-> <<>>, args |-> <<>>]

\* A CommandResult.
CommandResult(command, args) ==
    [threw |-> FALSE, command |-> command, args |-> args]

\* The characters String.prototype.trim() strips and \s matches.
WhiteSpace ==
    {9, 10, 11, 12, 13, 32, 160, 5760, 8232, 8233, 8239, 8287, 12288, 65279}
    \cup (8192..8202)

\* The number of white-space characters str starts with.
RECURSIVE leadingWhiteSpace(_)
leadingWhiteSpace(str) ==
    IF str = <<>> \/ str[1] \notin WhiteSpace THEN 0
    ELSE 1 + leadingWhiteSpace(Tail(str))

\* The number of white-space characters str ends with.
RECURSIVE trailingWhiteSpace(_)
trailingWhiteSpace(str) ==
    IF str = <<>> \/ str[Len(str)] \notin WhiteSpace THEN 0
    ELSE 1 + trailingWhiteSpace(SubSeq(str, 1, Len(str) - 1))

\* String.prototype.trim().
trim(str) ==
    IF leadingWhiteSpace(str) = Len(str) THEN <<>>
    ELSE SubSeq(str, leadingWhiteSpace(str) + 1,
                Len(str) - trailingWhiteSpace(str))

\* The class of /[;&|`$(){}[\]<>]/.
ShellMetaChars == {59, 38, 124, 96, 36, 40, 41, 123, 125, 91, 93, 60, 62}

\* dangerousPatterns, each as the set of strings it matches.
MatchesShellMeta(target) == \E i \in 1..Len(target) : target[i] \in ShellMetaChars

MatchesLineBreak(target) == \E i \in 1..Len(target) : target[i] \in {10, 13}

MatchesLeadingHyphen(target) ==
    /\ leadingWhiteSpace(target) < Len(target)
    /\ target[leadingWhiteSpace(target) + 1] = 45

\* Mutant of validateTarget: the leading-hyphen pattern is missing.
validateTargetNoHyphen(target) ==
    IF target = <<>> \/ trim(target) = <<>> THEN TRUE
    ELSE MatchesShellMeta(target) \/ MatchesLineBreak(target)

\* validateTarget(target): TRUE when it throws, FALSE when it returns.
validateTarget(target) ==
    IF target = <<>> \/ trim(target) = <<>> THEN TRUE
    ELSE \/ MatchesShellMeta(target)
         \/ MatchesLineBreak(target)
         \/ MatchesLeadingHyphen(target)

\* buildCommand(runner, scope, target).
buildCommand(runner, scope, target) ==
    IF runner \notin DOMAIN COMMAND_TEMPLATES THEN Thrown
    ELSE IF scope \notin DOMAIN COMMAND_TEMPLATES[runner] THEN Thrown
    ELSE LET template == COMMAND_TEMPLATES[runner][scope]
             args == template.baseArgs
         IN  IF template.targetArgFormat = "none"
             THEN CommandResult(template.command, args)
             ELSE IF target = <<>> THEN Thrown
             ELSE IF validateTarget(target) THEN Thrown
             ELSE IF template.targetArgFormat = "positional"
             THEN CommandResult(template.command, Append(args, target))
             ELSE IF template.targetArgFormat = "named"
                     /\ template.targetFlag # Null
             THEN CommandResult(template.command,
                                args \o <<template.targetFlag, target>>)
             ELSE CommandResult(template.command, args)

\* ---------------------------------------- calls of the command builder
\* One call of buildCommand with any runner name, scope and target.
RunnerNames == ALLOWED_RUNNERS \cup {"make"}

CmdUnchanged ==
    UNCHANGED <<now, tb, options, phase, startTime, child, logs, resolved,
                result, resolveCount, deliveredLen, winner, killCount,
                armCount, calls, rearmed, killPending, lastOp, superseded,
                log, toolVars>>

CallBuildCommand(runner, scope, target) ==
    /\ phase = "cmd" /\ ret = NoCall
    /\ ret' = [fn |-> "buildCommand", runner |-> runner, scope |-> scope,
               target |-> target,
               value |-> buildCommand(runner, scope, target)]
    /\ CmdUnchanged

InitCmd ==
    /\ now = 0
    /\ tb = NewTimeboxController
    /\ options = [timeoutMs |-> 1, noOutputTimeoutMs |-> 1]
    /\ phase = "cmd"
    /\ startTime = 0
    /\ child = NoChild
    /\ logs = <<>>
    /\ resolved = FALSE
    /\ result = NoResult
    /\ resolveCount = 0
    /\ deliveredLen = 0
    /\ winner = "none"
    /\ killCount = 0
    /\ armCount = 0
    /\ calls = <<>>
    /\ rearmed = FALSE
    /\ killPending = 0
    /\ lastOp = "none"
    /\ superseded = Null
    /\ log = <<>>
    /\ ret = NoCall
    /\ wallClock = 0
    /\ reports = {}
    /\ input = Null
    /\ spawned = 0

NextCmd ==
    \E runner \in RunnerNames, scope \in ALLOWED_SCOPES,
       target \in TargetStrings : CallBuildCommand(runner, scope, target)

SpecCmd == InitCmd /\ [][NextCmd]_vars

\* ====================================================== path validator
\* node:path on a POSIX system; a path is a string of code points.
\* '/' and '.'
Sep == 47
Dot == 46

\* path.isAbsolute(p)
isAbsolute(p) == p # <<>> /\ p[1] = Sep

\* p.split('/')
RECURSIVE splitPath(_)
splitPath(p) ==
    LET i == indexOf(p, Sep)
    IN  IF i < 0 THEN <<p>>
        ELSE <<SubSeq(p, 1, i)>> \o splitPath(slice(p, i + 1))

\* segs.join('/')
RECURSIVE joinPath(_)
joinPath(segs) ==
    IF segs = <<>> THEN <<>>
    ELSE IF Len(segs) = 1 THEN segs[1]
    ELSE segs[1] \o <<Sep>> \o joinPath(Tail(segs))

\* node:path's normalizeString: '' and '.' segments are dropped, '..'
\* removes the segment before it; above the start it is dropped in an
\* absolute path and kept in a relative one.
RECURSIVE normalizeString(_, _, _)
normalizeString(segs, acc, absolute) ==
    IF segs = <<>> THEN acc
    ELSE LET seg == Head(segs)
             rest == Tail(segs)
         IN  IF seg = <<>> \/ seg = <<Dot>>
             THEN normalizeString(rest, acc, absolute)
             ELSE IF seg = <<Dot, Dot>>
             THEN IF acc # <<>> /\ acc[Len(acc)] # <<Dot, Dot>>
                  THEN normalizeString(rest, SubSeq(acc, 1, Len(acc) - 1),
                                       absolute)
                  ELSE IF absolute
                  THEN normalizeString(rest, acc, absolute)
                  ELSE normalizeString(rest, Append(acc, seg), absolute)
             ELSE normalizeString(rest, Append(acc, seg), absolute)

\* path.resolve(from, to) for an absolute from: an absolute, normalized
\* path without a trailing separator.
resolve(from, to) ==
    LET whole == IF isAbsolute(to) THEN to ELSE from \o <<Sep>> \o to
    IN  <<Sep>> \o joinPath(normalizeString(splitPath(whole), <<>>, TRUE))

\* The length of the longest common prefix of two segment lists.
RECURSIVE commonLength(_, _)
commonLength(a, b) ==
    IF a = <<>> \/ b = <<>> THEN 0
    ELSE IF a[1] # b[1] THEN 0
    ELSE 1 + commonLength(Tail(a), Tail(b))

\* path.relative(from, to) for two resolved paths.
relative(from, to) ==
    LET f == normalizeString(splitPath(from), <<>>, TRUE)
        t == normalizeString(splitPath(to), <<>>, TRUE)
        c == commonLength(f, t)
    IN  joinPath([i \in 1..(Len(f) - c) |-> <<Dot, Dot>>]
                 \o SubSeq(t, c + 1, Len(t)))

\* path.join(a, b): the normalized concatenation, '.' when it is empty.
join(a, b) ==
    LET whole == a \o <<Sep>> \o b
        segs == normalizeString(splitPath(whole), <<>>, isAbsolute(whole))
    IN  IF isAbsolute(whole) THEN <<Sep>> \o joinPath(segs)
        ELSE IF segs = <<>> THEN <<Dot>>
        ELSE joinPath(segs)

\* str.startsWith('..')
startsWithDotDot(str) == Len(str) >= 2 /\ str[1] = Dot /\ str[2] = Dot

\* isUnderRepo(targetPath, repoRoot)
isUnderRepo(targetPath, repoRoot) ==
    IF targetPath = <<>> \/ repoRoot = <<>> THEN FALSE
    ELSE LET normalizedRepoRoot == resolve(repoRoot, <<>>)
             absoluteTargetPath == resolve(normalizedRepoRoot, targetPath)
             relativePath == relative(normalizedRepoRoot, absoluteTargetPath)
         IN  IF relativePath = <<>> THEN TRUE
             ELSE IF startsWithDotDot(relativePath) THEN FALSE
             ELSE IF isAbsolute(relativePath) THEN FALSE
             ELSE TRUE

\* normalizePath(targetPath, repoRoot): a PathValidationResult, its
\* normalizedPath '' when invalid.
normalizePath(targetPath, repoRoot) ==
    IF targetPath = <<>> THEN [valid |-> FALSE, normalizedPath |-> <<>>]
    ELSE IF repoRoot = <<>> THEN [valid |-> FALSE, normalizedPath |-> <<>>]
    ELSE LET normalizedRepoRoot == resolve(repoRoot, <<>>)
             absolutePath == resolve(normalizedRepoRoot, targetPath)
             relativePath == relative(normalizedRepoRoot, absolutePath)
         IN  IF isAbsolute(targetPath)
             THEN [valid |-> FALSE, normalizedPath |-> <<>>]
             ELSE IF ~isUnderRepo(absolutePath, normalizedRepoRoot)
             THEN [valid |-> FALSE, normalizedPath |-> <<>>]
             ELSE [valid |-> TRUE,
                   normalizedPath |-> IF relativePath = <<>> THEN <<Dot>>
                                      ELSE relativePath]

\* ================================================== report generator
MAX_REPORTS == 5

\* The local wall clock runs over 0..MaxWall seconds after local midnight.
MaxWall == 6

\* String(n).padStart(2, '0') for 0 <= n < 100, as code points.
padStart2(n) == <<48 + (n \div 10), 48 + (n % 10)>>

\* generateTimestampDirName() at local time t seconds after midnight: the
\* hours, minutes and seconds fields of `${year}${month}${day}-${hours}
\* ${minutes}${seconds}`; the date prefix is the same for every call of a
\* day and is left out.
generateTimestampDirName(t) ==
    padStart2(t \div 3600) \o padStart2((t % 3600) \div 60) \o padStart2(t % 60)

\* The order Array.prototype.sort() puts strings in: a sorts before b.
RECURSIVE sortsBefore(_, _)
sortsBefore(a, b) ==
    IF b = <<>> THEN FALSE
    ELSE IF a = <<>> THEN TRUE
    ELSE IF a[1] # b[1] THEN a[1] < b[1]
    ELSE sortsBefore(Tail(a), Tail(b))

\* dirs.sort().reverse(): the names in descending order.
RECURSIVE sortReverse(_)
sortReverse(names) ==
    IF names = {} THEN <<>>
    ELSE LET last == CHOOSE n \in names :
                        \A m \in names \ {n} : sortsBefore(m, n)
         IN  <<last>> \o sortReverse(names \ {last})

\* cleanupOldReports(basePath) on a base path that holds the directories
\* dirNames: what is left of them. readdir and rm are taken to succeed.
cleanupOldReports(dirNames) ==
    LET dirs == sortReverse(dirNames)
        toDelete == {dirs[i] : i \in (MAX_REPORTS + 1)..Len(dirs)}
    IN  dirNames \ toDelete

\* '.cache/mcp-test-timebox/reports'
DEFAULT_REPORT_BASE ==
    <<46, 99, 97, 99, 104, 101, 47, 109, 99, 112, 45, 116, 101, 115, 116, 45,
      116, 105, 109, 101, 98, 111, 120, 47, 114, 101, 112, 111, 114, 116, 115>>

\* createReportDir(basePath) at local time t on a base path that holds the
\* directories dirNames: the returned path, its last segment and the
\* directories left.
createReportDir(basePath, dirNames, t) ==
    LET base == IF basePath = <<>> THEN DEFAULT_REPORT_BASE ELSE basePath
        timestampDir == generateTimestampDirName(t)
    IN  [reportDir |-> join(base, timestampDir),
         timestampDir |-> timestampDir,
         dirs |-> cleanupOldReports(dirNames \cup {timestampDir})]

\* ------------------------------------- calls of the report generator
\* createReportDir() is called again and again on one base path, which is
\* empty at first, while the local wall clock runs.
ReportUnchanged ==
    UNCHANGED <<now, tb, options, phase, startTime, child, logs, resolved,
                result, resolveCount, deliveredLen, winner, killCount,
                armCount, calls, rearmed, killPending, lastOp, superseded,
                log, input, spawned>>

CallCreateReportDir ==
    /\ phase = "report"
    /\ LET made == createReportDir(<<>>, reports, wallClock)
       IN  /\ reports' = made.dirs
           /\ ret' = [fn |-> "createReportDir", value |-> made.reportDir,
                      timestampDir |-> made.timestampDir]
    /\ UNCHANGED wallClock
    /\ ReportUnchanged

\* A second passes.
SecondPasses ==
    /\ phase = "report"
    /\ wallClock < MaxWall
    /\ wallClock' = wallClock + 1
    /\ UNCHANGED <<reports, ret>>
    /\ ReportUnchanged

\* The local clock is set back: daylight saving time ends, or the system
\* time is corrected.
ClockSetBack ==
    /\ phase = "report"
    /\ \E t \in 0..(wallClock - 1) : wallClock' = t
    /\ UNCHANGED <<reports, ret>>
    /\ ReportUnchanged

InitReport ==
    /\ now = 0
    /\ tb = NewTimeboxController
    /\ options = [timeoutMs |-> 1, noOutputTimeoutMs |-> 1]
    /\ phase = "report"
    /\ startTime = 0
    /\ child = NoChild
    /\ logs = <<>>
    /\ resolved = FALSE
    /\ result = NoResult
    /\ resolveCount = 0
    /\ deliveredLen = 0
    /\ winner = "none"
    /\ killCount = 0
    /\ armCount = 0
    /\ calls = <<>>
    /\ rearmed = FALSE
    /\ killPending = 0
    /\ lastOp = "none"
    /\ superseded = Null
    /\ log = <<>>
    /\ ret = NoCall
    /\ wallClock = 0
    /\ reports = {}
    /\ input = Null
    /\ spawned = 0

NextReport ==
    \/ CallCreateReportDir
    \/ SecondPasses
    \/ ClockSetBack

SpecReport == InitReport /\ [][NextReport]_vars

\* ======================================================= run_test tool
\* 'a', '.', '/', '-', ';'
PathAlphabet == {97, Dot, Sep, 45, 59}

\* The targets of the tool's input, '' standing for an absent one too.
ToolTargets == UNION {[1..n -> PathAlphabet] : n \in 0..MaxTargetLen}

\* The report_dir values of the tool's input, '' standing for an absent one.
ReportDirs == UNION {[1..n -> {97, Dot, Sep}] : n \in 0..2}

\* cwd: '/r'
WorkingDir == <<47, 114>>

\* The inputs of RunTestTool.execute(): a runner and a scope that are or are
\* not allowed, a timeout_ms that is or is not positive; the other two
\* numbers are positive and cwd is an absolute path.
ToolInputs ==
    [runner : {"jest", "make"},
     scope : ALLOWED_SCOPES \cup {"shell"},
     target : ToolTargets,
     timeout_ms : {0, 1},
     no_output_timeout_ms : {1},
     max_output_bytes : {1},
     report_dir : ReportDirs,
     cwd : {WorkingDir}]

\* positiveIntSchema on an integer.
positiveIntSchema(n) == n > 0

\* validateRunTestInput(input).success
validateRunTestInput(in) ==
    /\ in.runner \in ALLOWED_RUNNERS
    /\ in.scope \in ALLOWED_SCOPES
    /\ positiveIntSchema(in.timeout_ms)
    /\ positiveIntSchema(in.no_output_timeout_ms)
    /\ positiveIntSchema(in.max_output_bytes)
    /\ ~(in.scope \in {"file", "pattern"} /\ in.target = <<>>)

\* Mutant of validationError: report_dir is not validated.
validationErrorSkipsReportDir(in) ==
    IF ~validateRunTestInput(in) THEN <<"input">>
    ELSE IF in.target # <<>> /\ ~normalizePath(in.target, in.cwd).valid
    THEN <<"target">>
    ELSE IF buildCommand(in.runner, in.scope, in.target).threw
    THEN <<"command">>
    ELSE Null

\* Steps 1 to 4 of execute(): the message of the first error response
\* returned before the process is started, Null when there is none.
validationError(in) ==
    IF ~validateRunTestInput(in) THEN <<"input">>
    ELSE IF in.target # <<>> /\ ~normalizePath(in.target, in.cwd).valid
    THEN <<"target">>
    ELSE IF in.report_dir # <<>> /\ ~normalizePath(in.report_dir, in.cwd).valid
    THEN <<"report_dir">>
    ELSE IF buildCommand(in.runner, in.scope, in.target).threw
    THEN <<"command">>
    ELSE Null

\* createErrorResponse(startTime, errorMessage), without duration_ms and
\* excerpt.
createErrorResponse(errorMessage) ==
    [status |-> "error",
     exit_code |-> Null,
     report_dir |-> <<>>,
     artifacts |-> [raw_log |-> <<>>, summary_md |-> <<>>,
                    summary_json |-> <<>>],
     error_message |-> errorMessage]

\* 'raw.log', 'summary.md', 'summary.json'
RawLogName == <<114, 97, 119, 46, 108, 111, 103>>
SummaryMdName == <<115, 117, 109, 109, 97, 114, 121, 46, 109, 100>>
SummaryJsonName == <<115, 117, 109, 109, 97, 114, 121, 46, 106, 115, 111, 110>>

\* What executor.execute() can resolve with.
ProcessResults ==
    {[status |-> "pass", exitCode |-> <<0>>],
     [status |-> "fail", exitCode |-> <<1>>],
     [status |-> "fail", exitCode |-> Null],
     [status |-> "timeout", exitCode |-> Null],
     [status |-> "no_output", exitCode |-> Null],
     [status |-> "error", exitCode |-> Null]}

ToolUnchanged ==
    UNCHANGED <<now, tb, options, startTime, child, logs, resolved,
                result, resolveCount, deliveredLen, winner, killCount,
                armCount, calls, rearmed, killPending, lastOp, superseded,
                log, wallClock, input>>

\* execute(input) up to `await executor.execute(...)`: an error response,
\* or the process is started.
ToolExecute ==
    /\ phase = "tool"
    /\ IF validationError(input) # Null
       THEN /\ ret' = [fn |-> "execute",
                       value |-> createErrorResponse(validationError(input))]
            /\ phase' = "returned"
            /\ UNCHANGED spawned
       ELSE /\ spawned' = spawned + 1
            /\ phase' = "awaiting"
            /\ UNCHANGED ret
    /\ UNCHANGED reports
    /\ ToolUnchanged

\* executor.execute() rejects: the catch block of step 5.
ToolProcessRejects ==
    /\ phase = "awaiting"
    /\ ret' = [fn |-> "execute", value |-> createErrorResponse(<<"process">>)]
    /\ phase' = "returned"
    /\ UNCHANGED <<reports, spawned>>
    /\ ToolUnchanged

\* executor.execute() resolves with processResult: steps 6 to 8. The report
\* directory is created; writing the artifacts succeeds or throws.
ToolProcessResolves(processResult, written) ==
    /\ phase = "awaiting"
    /\ LET made == createReportDir(input.report_dir, reports, wallClock)
       IN  /\ reports' = made.dirs
           /\ ret' = [fn |-> "execute",
                      value |->
                        IF written
                        THEN [status |-> processResult.status,
                              exit_code |-> processResult.exitCode,
                              report_dir |-> made.reportDir,
                              artifacts |->
                                [raw_log |-> join(made.reportDir, RawLogName),
                                 summary_md |-> join(made.reportDir,
                                                     SummaryMdName),
                                 summary_json |-> join(made.reportDir,
                                                       SummaryJsonName)],
                              error_message |-> Null]
                        ELSE createErrorResponse(<<"report">>)]
    /\ phase' = "returned"
    /\ UNCHANGED spawned
    /\ ToolUnchanged

InitTool ==
    /\ now = 0
    /\ tb = NewTimeboxController
    /\ options = [timeoutMs |-> 1, noOutputTimeoutMs |-> 1]
    /\ phase = "tool"
    /\ startTime = 0
    /\ child = NoChild
    /\ logs = <<>>
    /\ resolved = FALSE
    /\ result = NoResult
    /\ resolveCount = 0
    /\ deliveredLen = 0
    /\ winner = "none"
    /\ killCount = 0
    /\ armCount = 0
    /\ calls = <<>>
    /\ rearmed = FALSE
    /\ killPending = 0
    /\ lastOp = "none"
    /\ superseded = Null
    /\ log = <<>>
    /\ ret = NoCall
    /\ wallClock = 0
    /\ reports = {}
    /\ input \in ToolInputs
    /\ spawned = 0

NextTool ==
    \/ ToolExecute
    \/ ToolProcessRejects
    \/ \E processResult \in ProcessResults, written \in BOOLEAN :
          ToolProcessResolves(processResult, written)

SpecTool == InitTool /\ [][NextTool]_vars

\* ====================================================== properties
\* The time at which the promise was resolved.
ResolvedAt == startTime + result.durationMs

\* The time at which execute() armed the pending hard timer.
ArmedAt == Due(tb.hardTimeoutId) - Delay(tb.hardTimeoutId)

\* execute() has run and its promise is still pending.
Pending == phase = "spawned" /\ ~resolved

\* In a step taken while the promise is pending, the trigger that reaches
\* finalize() builds the delivered result.
FirstTriggerWins ==
    /\ OnClose => /\ winner' = "close"
                  /\ result' = CloseResult(child.exitCode, now)
    /\ OnError => /\ winner' = "error"
                  /\ result' = ErrorResult(now)
    /\ HardTimeoutFires => /\ winner' = "hard"
                           /\ result'.status = "timeout"
    /\ NoOutputTimeoutFires => /\ winner' = "no_output"
                               /\ result'.status = "no_output"

\* C1: within one execute() call resolve() is called exactly once, by the
\* first of 'close', 'error', the hard timer and the no-output timer to reach
\* finalize(); every later trigger leaves the delivered status, exitCode,
\* timedOut and noOutput (and the winner) unchanged.
C1_ResolvedExactlyOnce ==
    /\ [](resolveCount <= 1 /\ (resolved <=> resolveCount = 1))
    /\ [][Pending => FirstTriggerWins]_vars
    /\ [][resolved => resolved' /\ result' = result /\ winner' = winner]_vars

\* C1 witness: a timeout won and the child's 'close' listener ran later.
C1_Witness ==
    /\ resolved /\ winner \in {"hard", "no_output"}
    /\ child.closeEmitted
    /\ result.status \in {"timeout", "no_output"}

\* C2: every execute() call eventually resolves, whatever the child does,
\* as long as time passes and armed timers fire.
C2_EventuallyResolves == <>resolved

\* C2 witness: resolved although the child is alive, has printed nothing and
\* has emitted neither 'close' nor 'error'.
C2_Witness ==
    /\ resolved /\ child.kind = "ok" /\ child.alive
    /\ child.stdout /\ child.stderr /\ ~child.closeEmitted
    /\ logs = <<>>

C4_NoOutputTimeout ==
    /\ Pending =>
         /\ tb.noOutputTimeoutId # Null
         /\ Due(tb.noOutputTimeoutId) =
              (IF logs = <<>> THEN ArmedAt ELSE logs[Len(logs)].timestamp)
              + options.noOutputTimeoutMs
    /\ winner = "no_output" =>
         /\ result.status = "no_output"
         /\ result.exitCode = Null
         /\ result.noOutput /\ ~result.timedOut
         /\ result.durationMs >= options.noOutputTimeoutMs
         /\ \A i \in 1..deliveredLen :
              logs[i].timestamp + options.noOutputTimeoutMs <= ResolvedAt

\* C4 witness: the no-output timeout won, counted from a chunk.
C4_Witness ==
    /\ resolved /\ winner = "no_output" /\ deliveredLen >= 1
    /\ result.status = "no_output"

\* C5: a chunk restarts the no-output timer, which therefore fires only a
\* full noOutputTimeoutMs after the last chunk, and leaves the pending hard
\* timer as it is, so the hard timer of a child that keeps printing stays
\* due timeoutMs after arming.
C5_OutputNeverPostponesHard ==
    /\ [][(\E s \in Streams : OnData(s)) =>
            /\ tb'.hardTimeoutId = tb.hardTimeoutId
            /\ Pending => tb'.noOutputTimeoutId =
                            Timer(now, options.noOutputTimeoutMs)]_vars
    /\ [][NoOutputTimeoutFires =>
            \/ logs = <<>>
            \/ logs[Len(logs)].timestamp + options.noOutputTimeoutMs <= now]_vars
    /\ [](Pending /\ logs # <<>> =>
            Due(tb.hardTimeoutId) <= startTime + MaxSpawnDelay + options.timeoutMs)

\* C5 witness: the hard timeout resolved a call whose last chunk was less
\* than noOutputTimeoutMs old.
C5_Witness ==
    /\ resolved /\ winner = "hard" /\ deliveredLen >= 1
    /\ logs[deliveredLen].timestamp + options.noOutputTimeoutMs > ResolvedAt
    /\ result.status = "timeout"

\* C6: when 'close' resolves the call, exit code 0 gives status 'pass' with
\* exitCode 0, any other code gives 'fail' with exactly that code, and
\* timedOut and noOutput are false.
C6_ExitCodeStatus ==
    winner = "close" =>
        /\ child.exitCode = <<0>> => result.status = "pass"
        /\ child.exitCode # <<0>> => result.status = "fail"
        /\ result.exitCode = child.exitCode
        /\ ~result.timedOut /\ ~result.noOutput

\* C6 witness: 'close' won with exit code 7.
C6_Witness ==
    /\ resolved /\ winner = "close" /\ child.exitCode = <<7>>
    /\ result.status = "fail" /\ result.exitCode = <<7>>

\* C7: a synchronous exception in the promise executor (spawn, stdin.end(),
\* arming) and the child's 'error' event each leave the promise resolved
\* with status 'error' and exitCode null.
C7_ErrorsBecomeResults ==
    /\ (phase = "spawned"
        /\ (child.kind = "none" \/ ~child.stdinEnded \/ armCount < 2)) =>
         resolved /\ winner = "catch"
    /\ (child.kind = "failed" /\ ~child.errorPending) =>
         resolved /\ winner = "error"
    /\ winner \in {"catch", "error"} =>
         /\ result.status = "error"
         /\ result.exitCode = Null
         /\ ~result.timedOut /\ ~result.noOutput

\* C7 witness: the 'error' event of a child that could not start resolved
\* the call.
C7_Witness ==
    /\ resolved /\ winner = "error" /\ child.kind = "failed"
    /\ result.status = "error"

\* spawn() threw or returned a ChildProcess that could not start.
SpawnFailed == phase = "spawned" /\ child.kind \in {"none", "failed"}

\* C8 as stated: when the command cannot be started no deadline is armed at
\* any point of the invocation.
C8_NeverArmedOnSpawnFailure == SpawnFailed => armCount = 0

\* C8 amended: a spawn failure resolves with 'error', the spawn is not
\* repeated and no deadline ever fires; when spawn() throws no deadline is
\* armed, and when the failure arrives as the 'error' event both deadlines
\* were armed once and are cancelled by the resolution.
C8_SpawnFailure ==
    /\ [](SpawnFailed /\ child.kind = "none" =>
            /\ armCount = 0 /\ tb = NewTimeboxController
            /\ resolved /\ result.status = "error")
    /\ [](SpawnFailed /\ child.kind = "failed" =>
            /\ armCount = 2 /\ ~tb.timedOut /\ killCount = 0
            /\ IF child.errorPending
               THEN ~resolved
               ELSE /\ resolved /\ result.status = "error"
                    /\ tb.hardTimeoutId = Null
                    /\ tb.noOutputTimeoutId = Null)
    /\ [][phase = "spawned" => phase' = "spawned" /\ child'.kind = child.kind]_vars

\* C8 witness: the 'error' event resolved the call and every deadline armed
\* for it is long past.
C8_Witness ==
    /\ SpawnFailed /\ child.kind = "failed" /\ resolved
    /\ result.status = "error" /\ now = MaxTime

\* C9 as stated: once execute() has resolved no entry is appended to logs.
C9_LogFrozenAfterResolve == resolved => Len(logs) = deliveredLen

\* C10 as stated: a controller whose callback has fired invokes no callback
\* again unless a set*Timeout call re-arms it.
C10_AtMostOneCallback == Len(calls) >= 2 => rearmed

\* Neither deadline of the controller is pending: it is idle, cleared or
\* fired.
NoDeadlinePending == tb.hardTimeoutId = Null /\ tb.noOutputTimeoutId = Null

C12_ResolvedMeansCancelled == resolved => NoDeadlinePending

\* C13 as stated: treeKill is requested at most once per call, and only
\* when a timeout is the trigger that resolved the call.
C13_KillOnlyByWinningTimeout ==
    /\ killCount <= 1
    /\ killCount = 1 => winner \in {"hard", "no_output"}

\* C14: a timer callback that finds the call pending resolves it in the
\* step that requests the kill, whatever becomes of the child, and
\* treeKill's completion callback, with or without an error, changes neither
\* the delivered result nor whether the call is resolved.
C14_ResolutionIndependentOfKill ==
    /\ [][(Pending /\ (HardTimeoutFires \/ NoOutputTimeoutFires)) =>
            /\ resolved'
            /\ result'.status \in {"timeout", "no_output"}
            /\ child' = child
            /\ killPending' = killPending + (IF child.pid THEN 1 ELSE 0)]_vars
    /\ [][(\E err \in BOOLEAN : KillCallback(err)) =>
            UNCHANGED <<resolved, result, winner, tb>>]_vars

\* C14 witness: a timeout has resolved the call while the kill it requested
\* has neither completed nor ended the child.
C14_Witness ==
    /\ resolved /\ winner \in {"hard", "no_output"}
    /\ killCount = 1 /\ killPending = 1
    /\ child.alive

\* C15: the log is the sequence of chunks handled so far in handling
\* order: the k-th handled chunk is entry k, tagged with the stream whose
\* listener handled it; a 'data' step appends exactly that one entry, no
\* other step touches the log, and the entries already there stay in place.
C15_LogIsArrivalSequence ==
    /\ [](\A i \in 1..Len(logs) :
              logs[i].data = i /\ logs[i].stream \in Streams)
    /\ [][\A s \in Streams : OnData(s) =>
              /\ Len(logs') = Len(logs) + 1
              /\ logs'[Len(logs')].stream = s
              /\ logs'[Len(logs')].timestamp = now]_vars
    /\ [][/\ Len(logs') >= Len(logs)
          /\ SubSeq(logs', 1, Len(logs)) = logs
          /\ (logs' # logs => \E s \in Streams : OnData(s))]_vars

\* C15 witness: chunks of the two streams interleaved, stderr's first, and
\* handled at different times.
C15_Witness ==
    /\ Len(logs) = 2
    /\ logs[1].stream = "stderr" /\ logs[2].stream = "stdout"
    /\ logs[1].timestamp < logs[2].timestamp

\* An event of the child has been handled: a chunk, 'close', 'error', or a
\* deadline callback.
EventHandled ==
    \/ logs # <<>>
    \/ child.closeEmitted
    \/ winner \in {"close", "error", "hard", "no_output"}

\* C16: once spawn() has returned a child, its stdin is ended before a
\* deadline is armed and before any event of the child is handled; stdin is
\* open only in a call that the catch block resolved because end() itself
\* raised.
C16_StdinEndedFirst ==
    child.kind # "none" =>
        /\ (armCount > 0 \/ EventHandled) => child.stdinEnded
        /\ ~child.stdinEnded => (resolved /\ winner = "catch")

\* C16 witness: a running child with stdin ended, both deadlines armed and a
\* chunk handled.
C16_Witness ==
    /\ child.kind = "ok" /\ child.stdinEnded /\ child.alive
    /\ armCount = 2 /\ Len(logs) = 1 /\ ~resolved

\* C17: an event of the child is handled only with both deadlines armed:
\* a handled chunk, 'close' or 'error' implies that both set*Timeout calls
\* were made, and a listener that runs while the call is pending finds both
\* timers pending.
C17_ArmedBeforeEvents ==
    /\ []((logs # <<>> \/ child.closeEmitted \/ winner \in {"close", "error"})
            => armCount = 2)
    /\ [][(Pending /\ (OnClose \/ OnError \/ \E s \in Streams : OnData(s)))
            => (tb.hardTimeoutId # Null /\ tb.noOutputTimeoutId # Null)]_vars

\* C17 witness: 'close' has resolved a call whose child wrote two chunks,
\* with both deadlines armed once.
C17_Witness ==
    /\ resolved /\ winner = "close" /\ child.closeEmitted
    /\ Len(logs) = 2 /\ armCount = 2

\* C18: in every delivered result, status is 'timeout' exactly when
\* timedOut is set and 'no_output' exactly when noOutput is set, the two
\* flags are never both set, and exitCode is null for the statuses
\* 'timeout', 'no_output' and 'error'.
C18_ResultFlagsConsistent ==
    resolved =>
        /\ result.status \in {"pass", "fail", "timeout", "no_output", "error"}
        /\ (result.status = "timeout") <=> result.timedOut
        /\ (result.status = "no_output") <=> result.noOutput
        /\ ~(result.timedOut /\ result.noOutput)
        /\ result.status \in {"timeout", "no_output", "error"}
              => result.exitCode = Null

\* C18 witness: a delivered no-output result of a child that had written a
\* chunk before falling silent.
C18_Witness ==
    /\ resolved /\ result.status = "no_output"
    /\ result.noOutput /\ ~result.timedOut /\ result.exitCode = Null
    /\ deliveredLen = 1

\* C19 as stated: a delivered result with timedOut and noOutput unset and a
\* status other than 'error' carries a non-null exit code.
C19_PassFailHasExitCode ==
    (resolved /\ ~result.timedOut /\ ~result.noOutput
        /\ result.status # "error") => result.exitCode # Null

\* The most recent of setNoOutputTimeout() and notifyOutput(): the arming by
\* execute() while no chunk has been handled, the last chunk afterwards.
LastNotified ==
    IF logs = <<>> THEN ArmedAt ELSE logs[Len(logs)].timestamp

\* C20: a pending no-output timer is the one armed by the most recent
\* setNoOutputTimeout() or notifyOutput() and is due noOutputTimeoutMs after
\* it; each notification replaces the pending timer by one that runs the
\* full interval from now; the callback runs no earlier than
\* noOutputTimeoutMs after the last notification.
C20_OneTimerFromLastNotify ==
    /\ [](tb.noOutputTimeoutId # Null =>
            /\ tb.noOutputTimeoutMs = <<options.noOutputTimeoutMs>>
            /\ tb.noOutputTimeoutId =
                 Timer(LastNotified, options.noOutputTimeoutMs))
    /\ [][(\E s \in Streams : OnData(s)) =>
            tb'.noOutputTimeoutId = Timer(now, options.noOutputTimeoutMs)]_vars
    /\ [][NoOutputTimeoutFires =>
            /\ now >= LastNotified + options.noOutputTimeoutMs
            /\ tb'.noOutputTimeoutId = Null]_vars

\* C20 witness: a notification has replaced the timer armed by
\* setNoOutputTimeout() while that timer was still running, and the new one
\* is due a full interval after the notification.
C20_Witness ==
    /\ Pending /\ Len(logs) = 1
    /\ ArmedAt < logs[1].timestamp
    /\ logs[1].timestamp < ArmedAt + options.noOutputTimeoutMs
    /\ tb.noOutputTimeoutId = Timer(logs[1].timestamp, options.noOutputTimeoutMs)

C23_ClearIdempotent ==
    /\ [][TBClear =>
            /\ NoDeadlinePending'
            /\ clear(tb') = tb'
            /\ calls' = calls
            /\ isTimedOut(tb') = isTimedOut(tb)
            /\ getTimeoutType(tb') = getTimeoutType(tb)]_vars
    /\ [][(lastOp = "clear" /\ TBClear) => tb' = tb]_vars
    /\ [](lastOp = "clear" => NoDeadlinePending)

\* C23 witness: clear() was called on a controller whose callback had
\* already fired.
C23_Witness ==
    /\ lastOp = "clear" /\ Len(calls) = 1
    /\ isTimedOut(tb) /\ NoDeadlinePending

\* C24: on a controller on which setNoOutputTimeout() was never called,
\* notifyOutput() returns the controller as it is: no no-output deadline
\* exists before or after, a pending hard deadline keeps its due time, and
\* no callback is invoked.
C24_NotifyWithoutNoOutputIsNoOp ==
    /\ [](tb.noOutputTimeoutMs = Null =>
            /\ tb.noOutputTimeoutId = Null
            /\ notifyOutput(tb, now) = tb)
    /\ [][(TBNotifyOutput /\ tb.noOutputTimeoutMs = Null) =>
            /\ tb' = tb
            /\ tb'.noOutputTimeoutId = Null
            /\ tb'.hardTimeoutId = tb.hardTimeoutId
            /\ calls' = calls]_vars

\* C24 witness: notifyOutput() was the last call on a controller that has a
\* hard deadline pending since an earlier time and never had a no-output
\* timeout.
C24_Witness ==
    /\ lastOp = "notifyOutput"
    /\ tb.noOutputTimeoutMs = Null /\ tb.noOutputTimeoutId = Null
    /\ tb.hardTimeoutId # Null
    /\ Due(tb.hardTimeoutId) - Delay(tb.hardTimeoutId) < now

\* C25: isTimedOut() is true exactly when getTimeoutType() is non-null;
\* both are unset while no callback has fired, whatever was armed or
\* cleared; the firing of a callback sets isTimedOut() and makes
\* getTimeoutType() the kind of that callback; clear() changes neither.
C25_TimedOutFlags ==
    /\ [](isTimedOut(tb) <=> getTimeoutType(tb) # Null)
    /\ [](calls = <<>> => (~isTimedOut(tb) /\ getTimeoutType(tb) = Null))
    /\ [](calls # <<>> =>
            (isTimedOut(tb) /\ getTimeoutType(tb) = <<calls[Len(calls)]>>))
    /\ [][TBHardTimeoutFires =>
            (isTimedOut(tb') /\ getTimeoutType(tb') = <<"hard">>)]_vars
    /\ [][TBNoOutputTimeoutFires =>
            (isTimedOut(tb') /\ getTimeoutType(tb') = <<"no_output">>)]_vars
    /\ [][(TBClear /\ calls = <<>>) =>
            (~isTimedOut(tb') /\ getTimeoutType(tb') = Null)]_vars

\* C25 witness: the no-output callback is the only one that has fired and
\* the controller reports it.
C25_Witness ==
    /\ calls = <<"no_output">>
    /\ isTimedOut(tb) /\ getTimeoutType(tb) = <<"no_output">>
    /\ lastOp = "noOutputTimer"

\* C26 as stated: what getTailBytes(log, maxBytes) returns encodes to at
\* most maxBytes bytes, and it is the log itself when the log encodes to at
\* most maxBytes bytes.
C26_TailWithinMaxBytes ==
    ret.fn = "getTailBytes" =>
        /\ Len(encode(ret.value)) <= ret.maxBytes
        /\ Len(encode(log)) <= ret.maxBytes => ret.value = log

\* suffix is the end of str.
IsSuffix(suffix, str) ==
    /\ Len(suffix) <= Len(str)
    /\ SubSeq(str, Len(str) - Len(suffix) + 1, Len(str)) = suffix

\* C27 as stated: for a log longer than maxBytes, getTailBytes returns a
\* suffix of the log (whole characters of the log, none replaced) that
\* begins where a line of the log begins, or nothing.
C27_TailIsLineAlignedSuffix ==
    (ret.fn = "getTailBytes" /\ Len(encode(log)) > ret.maxBytes) =>
        /\ IsSuffix(ret.value, log)
        /\ \/ ret.value = <<>>
           \/ log[Len(log) - Len(ret.value)] = LF

\* The lines extractImportantLines searches: those of the tail window when
\* maxBytes is given, those of the log otherwise; none when that string is
\* empty.
WindowLines(str, opts) ==
    LET targetLog == IF opts.maxBytes # Null
                     THEN getTailBytes(str, opts.maxBytes[1])
                     ELSE str
    IN  IF targetLog = <<>> THEN <<>> ELSE split(targetLog)

\* The regular expression pattern matches somewhere in line.
Matches(pattern, line) == \E k \in 1..Len(line) : line[k] = pattern.source

\* Some pattern of the list matches line.
MatchesAny(patterns, line) ==
    \E j \in 1..Len(patterns) : Matches(patterns[j], line)

\* C28 as stated: the blocks returned have exactly one block for each line
\* of the window that some configured pattern matches, and none for any
\* other line.
C28_OneBlockPerMatchingLine ==
    ret.fn = "extractImportantLines" =>
        LET lines == WindowLines(log, ret.options)
        IN  \A i \in 0..(Len(lines) - 1) :
                Cardinality({b \in 1..Len(ret.value) :
                                 ret.value[b].lineNumber = i})
                  = (IF MatchesAny(ret.options.patterns, lines[i + 1])
                     THEN 1 ELSE 0)

\* C29: every block returned for a window of n lines with context size c
\* is for a line i of the window, has contextStartLine = max(0, i - c) and
\* contextEndLine = min(n - 1, i + c), and its contextLines are the window's
\* lines contextStartLine..contextEndLine in order, the matched line among
\* them.
C29_ContextClippedToWindow ==
    ret.fn = "extractImportantLines" =>
        LET lines == WindowLines(log, ret.options)
            n == Len(lines)
            c == ret.options.contextLines
        IN  \A b \in 1..Len(ret.value) :
                LET blk == ret.value[b]
                    i == blk.lineNumber
                    first == blk.contextStartLine
                    last == blk.contextEndLine
                IN  /\ i >= 0 /\ i <= n - 1
                    /\ blk.matchedLine = lines[i + 1]
                    /\ first = (IF i - c > 0 THEN i - c ELSE 0)
                    /\ last = (IF i + c < n - 1 THEN i + c ELSE n - 1)
                    /\ Len(blk.contextLines) = last - first + 1
                    /\ \A k \in 1..Len(blk.contextLines) :
                           blk.contextLines[k] = lines[first + k]
                    /\ blk.contextLines[i - first + 1] = blk.matchedLine

\* C29 witness: a block whose context is clipped at the start of the window
\* and reaches its full size after the matched line, with lines of the
\* window left beyond it.
C29_Witness ==
    /\ ret.fn = "extractImportantLines"
    /\ \E b \in 1..Len(ret.value) :
           /\ ret.value[b].lineNumber - ret.options.contextLines < 0
           /\ ret.value[b].contextStartLine = 0
           /\ ret.value[b].contextEndLine
                = ret.value[b].lineNumber + ret.options.contextLines
           /\ ret.value[b].contextEndLine
                < Len(WindowLines(log, ret.options)) - 1

\* The lines of str that are not empty, in order.
NonEmptyLines(str) == SelectSeq(split(str), LAMBDA l : l # <<>>)

LastNonEmpty(lines) ==
    IF \A k \in 1..Len(lines) : lines[k] = <<>>
    THEN 0
    ELSE CHOOSE k \in 1..Len(lines) :
             lines[k] # <<>> /\ \A j \in (k + 1)..Len(lines) : lines[j] = <<>>

C34_FirstMatchingPatternRecorded ==
    ret.fn = "extractImportantLines" =>
        LET lines == WindowLines(log, ret.options)
            patterns == ret.options.patterns
        IN  \A b \in 1..Len(ret.value) :
                LET line == lines[ret.value[b].lineNumber + 1]
                IN  /\ MatchesAny(patterns, line)
                    /\ ret.value[b].pattern =
                         patterns[CHOOSE j \in 1..Len(patterns) :
                                      /\ Matches(patterns[j], line)
                                      /\ \A k \in 1..(j - 1) :
                                             ~Matches(patterns[k], line)].source

\* The options without the byte limit.
WithoutMaxBytes(opts) == [opts EXCEPT !.maxBytes = Null]

\* C35: a call with maxBytes returns what the call without it returns on
\* getTailBytes(log, maxBytes), so each block's line is the line of that
\* number in the tail window.
C35_ExtractionOnWindow ==
    (ret.fn = "extractImportantLines" /\ ret.options.maxBytes # Null) =>
        LET window == getTailBytes(log, ret.options.maxBytes[1])
        IN  /\ ret.value =
                 extractImportantLines(window, WithoutMaxBytes(ret.options))
            /\ \A b \in 1..Len(ret.value) :
                   /\ ret.value[b].lineNumber < Len(split(window))
                   /\ ret.value[b].matchedLine =
                        split(window)[ret.value[b].lineNumber + 1]

\* C35 witness: the byte limit cut a matching line off: the call returned
\* fewer blocks than a search of the whole log gives, and at least one.
C35_Witness ==
    /\ ret.fn = "extractImportantLines" /\ ret.options.maxBytes # Null
    /\ Len(ret.value) >= 1
    /\ Len(ret.value)
         < Len(extractImportantLines(log, WithoutMaxBytes(ret.options)))

\* C36: with timeoutMs <= noOutputTimeoutMs the no-output timeout is never
\* the trigger that resolves the call; a timer callback that resolves a
\* call whose two deadlines are due at the same instant, no chunk handled,
\* delivers status 'timeout'.
C36_HardWinsWhenNotLonger ==
    /\ [](options.timeoutMs <= options.noOutputTimeoutMs =>
            (winner # "no_output" /\ result.status # "no_output"))
    /\ [][(/\ Pending /\ logs = <<>>
           /\ tb.hardTimeoutId # Null /\ tb.noOutputTimeoutId # Null
           /\ Due(tb.hardTimeoutId) = Due(tb.noOutputTimeoutId)
           /\ (HardTimeoutFires \/ NoOutputTimeoutFires))
          => (winner' = "hard" /\ result'.status = "timeout")]_vars

\* C36 witness: equal deadlines, no output, resolved by the hard timeout at
\* the instant both were due.
C36_Witness ==
    /\ options.timeoutMs = options.noOutputTimeoutMs
    /\ resolved /\ winner = "hard" /\ result.status = "timeout"
    /\ logs = <<>> /\ result.durationMs = options.timeoutMs

\* C37: getTimeoutType() is write-once: once it is 'hard' or 'no_output',
\* no step changes it as long as no set*Timeout call followed the first
\* callback (only notifyOutput(), clear() and elapsed time).
C37_TimeoutTypeWriteOnce ==
    [][(getTimeoutType(tb) # Null /\ ~rearmed')
          => getTimeoutType(tb') = getTimeoutType(tb)]_vars

\* C38: the step that resolves the call with status 'no_output' is taken
\* at the delivered resolution time, and every chunk in the log, of stdout
\* and of stderr, is then at least noOutputTimeoutMs old.
C38_NoOutputNeverPremature ==
    [][(Pending /\ resolved' /\ result'.status = "no_output") =>
          /\ now = startTime + result'.durationMs
          /\ logs' = logs
          /\ \A s \in Streams : \A i \in 1..Len(logs) :
               logs[i].stream = s =>
                 logs[i].timestamp <= now - options.noOutputTimeoutMs]_vars

\* C38 witness: a 'no_output' result after a chunk on each stream, delivered
\* exactly noOutputTimeoutMs after the later of the two.
C38_Witness ==
    /\ resolved /\ result.status = "no_output" /\ deliveredLen = 2
    /\ logs[1].stream # logs[2].stream
    /\ logs[2].timestamp + options.noOutputTimeoutMs = ResolvedAt

\* C39: when 'close' is the winning trigger the result is 'pass' or 'fail',
\* both pipes are closed and the delivered log is the whole log; after a
\* 'pass' or 'fail' resolution no chunk is handled.
C39_CloseDeliversWholeLog ==
    /\ [](winner = "close" =>
            /\ result.status \in {"pass", "fail"}
            /\ ~child.stdout /\ ~child.stderr
            /\ Len(logs) = deliveredLen)
    /\ [][(resolved /\ result.status \in {"pass", "fail"})
            => (logs' = logs /\ ~(\E s \in Streams : OnData(s)))]_vars

\* C39 witness: 'close' won after a chunk on each stream, and time has
\* passed since.
C39_Witness ==
    /\ resolved /\ winner = "close" /\ deliveredLen = 2
    /\ logs[1].stream # logs[2].stream
    /\ now > ResolvedAt

\* What the claim lists as a target that must be refused: missing or blank,
\* with a shell metacharacter or a line break, or beginning with '-'.
RefusedTarget(target) ==
    \/ target = <<>>
    \/ \A i \in 1..Len(target) : target[i] \in WhiteSpace
    \/ \E i \in 1..Len(target) : target[i] \in ShellMetaChars \cup {10, 13}
    \/ target[1] = 45

\* The fixed command line of each runner, as the README lists it.
ExpectedCommand(runner) ==
    CASE runner = "flutter" -> <<FlutterCmd, TestArg>>
      [] runner = "vitest" -> <<NpxCmd, VitestArg, RunArg>>
      [] runner = "pytest" -> <<PytestCmd>>
      [] runner = "jest" -> <<NpxCmd, JestArg>>

\* The flag each runner takes a test-name pattern with.
ExpectedFlag(runner) ==
    CASE runner = "flutter" -> NameFlag
      [] runner = "vitest" -> TFlag
      [] runner = "pytest" -> KFlag
      [] runner = "jest" -> TFlag

\* C32: for an allowed runner, buildCommand with scope all returns the fixed
\* command line; with scope file or pattern it throws on a refused target
\* and whatever it returns is the fixed command line followed by the target
\* (file) or by the runner's flag and the target (pattern).
C32_FixedTemplateOrThrow ==
    (ret.fn = "buildCommand" /\ ret.runner \in ALLOWED_RUNNERS) =>
        LET v == ret.value
            line == <<v.command>> \o v.args
        IN  /\ ret.scope = "all" =>
                 (~v.threw /\ line = ExpectedCommand(ret.runner))
            /\ (ret.scope # "all" /\ RefusedTarget(ret.target)) => v.threw
            /\ (ret.scope = "file" /\ ~v.threw) =>
                 line = ExpectedCommand(ret.runner) \o <<ret.target>>
            /\ (ret.scope = "pattern" /\ ~v.threw) =>
                 line = ExpectedCommand(ret.runner)
                          \o <<ExpectedFlag(ret.runner), ret.target>>

\* C32 witness: a pattern call that returned the command line with the flag
\* and a target containing a hyphen that is not leading.
C32_Witness ==
    /\ ret.fn = "buildCommand" /\ ret.runner = "vitest"
    /\ ret.scope = "pattern" /\ ret.target = <<97, 45, 97>>
    /\ ret.value = CommandResult(NpxCmd, <<VitestArg, RunArg, TFlag, <<97, 45, 97>>>>)

\* C33 as stated: after any sequence of createReportDir() calls on one base
\* path at most MAX_REPORTS directories are left under it, and the directory
\* the most recent call returned is one of them.
C33_LatestFiveRetained ==
    ret.fn = "createReportDir" =>
        /\ Cardinality(reports) <= MAX_REPORTS
        /\ ret.timestampDir \in reports
        /\ ret.value = join(DEFAULT_REPORT_BASE, ret.timestampDir)

\* Input validation, the validation of the target and report_dir paths that
\* are given, and command construction all succeed on the input.
AllValidated ==
    /\ validateRunTestInput(input)
    /\ input.target # <<>> => normalizePath(input.target, input.cwd).valid
    /\ input.report_dir # <<>> =>
         normalizePath(input.report_dir, input.cwd).valid
    /\ ~buildCommand(input.runner, input.scope, input.target).threw

\* C31: a process is started or a report directory exists only when all the
\* validations and command construction succeeded; when one of them fails,
\* the call returns status 'error' with exit_code null, empty report_dir
\* and artifact paths and an error_message, with no process started and no
\* directory created.
C31_ValidatedBeforeSpawn ==
    /\ (spawned > 0 \/ reports # {}) => AllValidated
    /\ (phase # "tool" /\ ~AllValidated) =>
         /\ phase = "returned" /\ ret.fn = "execute"
         /\ ret.value.status = "error"
         /\ ret.value.exit_code = Null
         /\ ret.value.report_dir = <<>>
         /\ ret.value.artifacts = [raw_log |-> <<>>, summary_md |-> <<>>,
                                   summary_json |-> <<>>]
         /\ ret.value.error_message # Null
         /\ spawned = 0 /\ reports = {}

\* C31 witness: an input that passes the schema and the target check and
\* whose report_dir points outside cwd was answered with an error response,
\* no process started.
C31_Witness ==
    /\ phase = "returned" /\ spawned = 0 /\ reports = {}
    /\ validateRunTestInput(input)
    /\ input.target = <<97>> /\ input.scope = "file"
    /\ input.report_dir = <<Dot, Dot>>
    /\ ret.value = createErrorResponse(<<"report_dir">>)

====
